---- MODULE Spec2Model ----
(***************************************************************************)
(* Job queue and background worker of the Evaluation Planner server        *)
(* (server.js): the jobs table, POST /api/jobs, GET /api/jobs/:id,         *)
(* processNextJob with its claim transaction and retry loop, the hourly    *)
(* cleanupOldJobs, and the diagnostic script test_db_connection.js that    *)
(* shares the table.                                                       *)
(***************************************************************************)
EXTENDS Integers, Sequences, FiniteSets, TLC

\* ---------------------------------------------------------------- bounds
MaxJobs == 2        \* rows ever inserted (values handed out by the SERIAL id)
MaxInv == 2         \* processNextJob invocations in flight at the same time
MaxTime == 3        \* last value of the clock (periods of three hours)
PoolSize == 2       \* connections in the pg pool of one process

\* ------------------------------------------------------ program constants
maxRetries == 3
\* milliseconds per unit of backoff
BackoffUnit == 1000
MinBodyLen == 500
\* the polls of the client that may find a job unfinished
maxAttempts == 200

NULL == "NULL"
\* a TIMESTAMP column: SQL NULL, or the time it holds
NoTime == <<>>
At(ts) == <<ts>>
\* six hours (sixHoursAgo); the clock counts periods of three hours
Retention == 2

JobIds == 1..MaxJobs
Invs == 1..MaxInv
\* two server processes started from server.js against one database
Procs == {"p1", "p2"}
\* the instances of server.js: the two above and one started with
\* ENABLE_JOB_PROCESSOR=false
Instances == Procs \cup {"web"}
enableAlways(p) == TRUE
enableJobProcessor(p) == p \in Procs
\* an instance after startServer with the processor enabled, and one not started
Running == [up |-> TRUE, http |-> TRUE, ticks |-> 1, sweeps |-> 1]
Down == [up |-> FALSE, http |-> FALSE, ticks |-> 0, sweeps |-> 0]

RecognizedTypes == {"prompt1", "prompt2", "report_template"}

VARIABLES
  jobs,        \* the committed jobs table: id -> row
  nextId,      \* next value of the SERIAL column id
  now,         \* the clock (NOW(), CURRENT_TIMESTAMP)
  timer,       \* the processes whose jobProcessingInterval is set
  inv,         \* the processNextJob invocations in flight
  claims,      \* per job: how many times a claim transaction committed it
  log,         \* per job: the upstream requests issued for it, in order
  stray,       \* an upstream request was issued for a job that was not claimed exactly once
  silent,      \* an outcome UPDATE returned normally although the job was not processing
  test,        \* test_db_connection.js: position and the id it inserted
  sweeps,      \* parity of the number of cleanupOldJobs runs
  http,        \* the last request to the jobs API and the response sent for it
  sweepLog,    \* what the sweeps logged: an error, and a sweep that ran after an error
  cleanup,     \* the processes whose jobCleanupInterval is set
  runtime,     \* per instance: started, HTTP server listening, intervals the runtime has active
  waits,       \* per job: the delay in ms the worker slept before each upstream request
  proxy,       \* the request in the chat-completions proxy: position, retries, upstream requests, sleeps, HTTP status sent
  keyEnv,      \* the value of OPENROUTER_API_KEY in the environment of the processes
  poll         \* the poll loop of the client: position, job id, attempts, status requests sent, result, error

vars == <<jobs, nextId, now, timer, inv, claims, log, stray, silent, test, sweeps, http, sweepLog, cleanup, runtime, waits, proxy, keyEnv, poll>>

\* what the jobs API answers: the HTTP status and the fields of the body
Reply(code, status, result, error, completed_at) ==
  [code |-> code, status |-> status, result |-> result, error |-> error,
   completed_at |-> completed_at]

Http(op, type, input, id, res) ==
  [op |-> op, type |-> type, input |-> input, id |-> id, res |-> res]

NoRequest == Http("none", "", "", 0, Reply(0, "", NULL, NULL, NoTime))

\* ------------------------------------------------------------ the table
RowStamped(type, input, ts) ==
  [job_type |-> type, status |-> "pending", input_data |-> input,
   result_data |-> NULL, error |-> NULL, created_at |-> ts, completed_at |-> At(ts)]

Row(type, input, ts) ==
  [job_type |-> type, status |-> "pending", input_data |-> input,
   result_data |-> NULL, error |-> NULL, created_at |-> ts, completed_at |-> NoTime]

\* INSERT INTO jobs (job_type, status, input_data) VALUES ($1, 'pending', $2)
InsertJob(t, id, type, input, ts) ==
  [j \in DOMAIN t \cup {id} |-> IF j = id THEN Row(type, input, ts) ELSE t[j]]

\* a slip in the claim UPDATE: the WHERE clause is left out
MarkProcessingNoWhere(t, id) ==
  [j \in DOMAIN t |-> [t[j] EXCEPT !.status = "processing"]]

\* UPDATE jobs SET status = 'processing' WHERE id = $1
MarkProcessing(t, id) ==
  [j \in DOMAIN t |-> IF j = id THEN [t[j] EXCEPT !.status = "processing"] ELSE t[j]]

\* a completed UPDATE that also clears the input of the job
MarkCompletedDropInput(t, id, text, ts) ==
  [j \in DOMAIN t |-> IF j = id
     THEN [t[j] EXCEPT !.status = "completed", !.result_data = text,
                       !.completed_at = At(ts), !.input_data = NULL]
     ELSE t[j]]

\* a slip in the completed UPDATE: completed_at is not set
MarkCompletedNoStamp(t, id, text, ts) ==
  [j \in DOMAIN t |-> IF j = id
     THEN [t[j] EXCEPT !.status = "completed", !.result_data = text]
     ELSE t[j]]

\* UPDATE jobs SET status = 'completed', result_data = $1, completed_at = CURRENT_TIMESTAMP WHERE id = $2
MarkCompleted(t, id, text, ts) ==
  [j \in DOMAIN t |-> IF j = id
     THEN [t[j] EXCEPT !.status = "completed", !.result_data = text, !.completed_at = At(ts)]
     ELSE t[j]]

\* a slip in the failed UPDATE: the error column is left out
MarkFailedNoError(t, id, msg, ts) ==
  [j \in DOMAIN t |-> IF j = id
     THEN [t[j] EXCEPT !.status = "failed", !.completed_at = At(ts)]
     ELSE t[j]]

\* a slip in the failed UPDATE: a fixed text is stored instead of the message
MarkFailedGeneric(t, id, msg, ts) ==
  [j \in DOMAIN t |-> IF j = id
     THEN [t[j] EXCEPT !.status = "failed", !.error = "Job processing failed", !.completed_at = At(ts)]
     ELSE t[j]]

\* UPDATE jobs SET status = 'failed', error = $1, completed_at = CURRENT_TIMESTAMP WHERE id = $2
MarkFailed(t, id, msg, ts) ==
  [j \in DOMAIN t |-> IF j = id
     THEN [t[j] EXCEPT !.status = "failed", !.error = msg, !.completed_at = At(ts)]
     ELSE t[j]]

\* DELETE FROM jobs WHERE id = $1
DeleteById(t, id) == [j \in DOMAIN t \ {id} |-> t[j]]

StatusOf(t, id) == IF id \in DOMAIN t THEN t[id].status ELSE "absent"

\* -------------------------------------------------------- the upstream
\* What one fetch of the completion endpoint can do: reject, never settle,
\* or deliver a response with a status, a body length and a body shape.
Resp(tag, st, len, shape, content) ==
  [tag |-> tag, kind |-> "resp", status |-> st, len |-> len, shape |-> shape, content |-> content]

RespOkA == Resp("okA", 200, 500, "valid", "a")
RespOkB == Resp("okB", 200, 700, "valid", "b")
RespShort == Resp("short", 200, 10, "valid", "a")
RespShort499 == Resp("short499", 200, 499, "valid", "b")
RespHttp500 == Resp("http500", 500, 700, "valid", "a")
RespHttp401 == Resp("http401", 401, 10, "valid", "a")
RespBadJson == Resp("badjson", 200, 700, "badjson", NULL)
RespNoChoices == Resp("nochoices", 200, 700, "nochoices", NULL)
RespNoContent == Resp("nocontent", 200, 700, "nocontent", NULL)
RejectTimeout ==
  [tag |-> "timeout", kind |-> "reject", status |-> 0, len |-> 0, shape |-> "none", content |-> NULL]
NeverSettles ==
  [tag |-> "hang", kind |-> "hang", status |-> 0, len |-> 0, shape |-> "none", content |-> NULL]

Responses == {RespOkA, RespOkB, RespShort, RespShort499, RespHttp500, RespHttp401,
              RespBadJson, RespNoChoices, RespNoContent, RejectTimeout, NeverSettles}

ByTag(tag) == CHOOSE r \in Responses : r.tag = tag

\* response.ok
ResponseOk(r) == r.status >= 200 /\ r.status <= 299

MsgTimeout == "fetch failed: timeout"
MsgHttp(st) == IF st = 401 THEN "OpenRouter API error: 401" ELSE "OpenRouter API error: 500"
MsgShort(len) == IF len = 10 THEN "Response too short (10 chars), likely truncated"
                 ELSE "Response too short (499 chars), likely truncated"
MsgParse == "Unexpected token in JSON"
MsgNoChoices == "Cannot read properties of undefined (reading '0')"
MsgNoLength == "Cannot read properties of undefined (reading 'length')"
MsgClaim == "Error in processNextJob"
MsgStore == "store error"

\* a slip in the length test: a short body is parsed like any other
AttemptNoFloor(r) ==
  IF r.kind = "reject" THEN [ok |-> FALSE, text |-> NULL, msg |-> MsgTimeout]
  ELSE IF ~ResponseOk(r) THEN [ok |-> FALSE, text |-> NULL, msg |-> MsgHttp(r.status)]
  ELSE IF r.shape = "badjson" THEN [ok |-> FALSE, text |-> NULL, msg |-> MsgParse]
  ELSE IF r.shape = "nochoices" THEN [ok |-> FALSE, text |-> NULL, msg |-> MsgNoChoices]
  ELSE [ok |-> TRUE, text |-> r.content, msg |-> NULL]

\* the body of the try block of one iteration of the retry loop
AttemptResult(r) ==
  IF r.kind = "reject" THEN [ok |-> FALSE, text |-> NULL, msg |-> MsgTimeout]
  ELSE IF ~ResponseOk(r) THEN [ok |-> FALSE, text |-> NULL, msg |-> MsgHttp(r.status)]
  ELSE IF r.len < MinBodyLen THEN [ok |-> FALSE, text |-> NULL, msg |-> MsgShort(r.len)]
  ELSE IF r.shape = "badjson" THEN [ok |-> FALSE, text |-> NULL, msg |-> MsgParse]
  ELSE IF r.shape = "nochoices" THEN [ok |-> FALSE, text |-> NULL, msg |-> MsgNoChoices]
  ELSE [ok |-> TRUE, text |-> r.content, msg |-> NULL]

\* the body of the try block of one iteration of the proxy's retry loop:
\* code is the status sent when the handler returns from inside the loop
\* (0: the iteration threw and is retried); a request that does not settle
\* is aborted after 5 minutes and answered 408
ProxyResult(r) ==
  IF r.kind = "hang" THEN [retry |-> FALSE, code |-> 408]
  ELSE IF r.kind = "reject" THEN [retry |-> TRUE, code |-> 0]
  ELSE IF ~ResponseOk(r) THEN [retry |-> FALSE, code |-> r.status]
  ELSE IF r.len < MinBodyLen THEN [retry |-> TRUE, code |-> 0]
  ELSE IF r.shape = "badjson" THEN [retry |-> TRUE, code |-> 0]
  ELSE [retry |-> FALSE, code |-> 200]

\* no request in the proxy
ProxyIdle == [pc |-> "idle", retries |-> 0, log |-> <<>>, waits |-> <<>>, code |-> 0]

MsgNoKey == "OpenRouter API key not configured."

\* a getOpenRouterApiKey that does not trim
getKeyUntrimmed(env) == IF env = "absent" THEN NULL ELSE env

\* getOpenRouterApiKey: key && key.trim() ? key.trim() : null
getOpenRouterApiKey(env) == IF env \in {"absent", "blank"} THEN NULL ELSE env

\* no poll loop running in the client
PollIdle == [pc |-> "idle", id |-> 0, attempts |-> 0, requests |-> 0, result |-> NULL, error |-> NULL]

MsgPollTimeout == "Job timeout - processing took too long"
MsgPollHttp == "Job status check failed"

\* a slip in the loop test: one poll too many
KeepPollingInclusive(attempts) == attempts <= maxAttempts

\* if (attempts < maxAttempts) setTimeout(poll, 3000)
KeepPolling(attempts) == attempts < maxAttempts

\* one run of poll() in the loop state q when the status request is answered res
PollStep(q, res) ==
  LET sent == [q EXCEPT !.requests = @ + 1] IN
  IF res.code # 200 THEN [sent EXCEPT !.pc = "error", !.error = MsgPollHttp]
  ELSE IF res.status = "completed" THEN [sent EXCEPT !.pc = "complete", !.result = res.result]
  ELSE IF res.status = "failed" THEN [sent EXCEPT !.pc = "error", !.error = res.error]
  ELSE IF res.status \in {"pending", "processing"}
    THEN IF KeepPolling(q.attempts + 1)
           THEN [sent EXCEPT !.attempts = @ + 1]
           ELSE [sent EXCEPT !.attempts = @ + 1, !.pc = "error", !.error = MsgPollTimeout]
  ELSE [sent EXCEPT !.pc = "stalled"]

\* ------------------------------------------------------ the invocations
Idle == [pc |-> "idle", proc |-> "none", job |-> 0, retries |-> 0, result |-> NULL, err |-> NULL]
\* a free slot whose last invocation ended in the outer catch with its claim
\* transaction open ('Error in processNextJob', ROLLBACK)
RolledBack == [Idle EXCEPT !.err = MsgClaim]

\* rows locked by the open claim transaction of another invocation
LockedByOther(i, j) ==
  \E k \in Invs : k # i /\ inv[k].pc = "commit" /\ inv[k].job = j

\* a slip in the SELECT: no FOR UPDATE SKIP LOCKED
CandidatesNoLock(i) == {j \in DOMAIN jobs : jobs[j].status = "pending"}

\* a SELECT that also takes jobs left in processing
CandidatesStale(i) ==
  {j \in DOMAIN jobs : jobs[j].status \in {"pending", "processing"} /\ ~LockedByOther(i, j)}

\* WHERE status = 'pending' ... FOR UPDATE SKIP LOCKED
Candidates(i) == {j \in DOMAIN jobs : jobs[j].status = "pending" /\ ~LockedByOther(i, j)}

\* a slip in the SELECT: ORDER BY created_at DESC
Newest(c) == {j \in c : \A k \in c : jobs[j].created_at >= jobs[k].created_at}

\* ORDER BY created_at ASC LIMIT 1
Oldest(c) == {j \in c : \A k \in c : jobs[j].created_at <= jobs[k].created_at}

\* the jobs an invocation holds between its claim and the end of its outcome UPDATE
Working(i) == inv[i].pc \in {"fetch", "hung", "complete", "fail"}

\* the state after startServer, whatever the environment holds
Start ==
  /\ jobs = <<>>
  /\ nextId = 1
  /\ now = 0
  /\ timer = Procs
  /\ inv = [i \in Invs |-> Idle]
  /\ claims = [j \in JobIds |-> 0]
  /\ log = [j \in JobIds |-> <<>>]
  /\ stray = FALSE
  /\ silent = FALSE
  /\ test = [pc |-> "start", id |-> 0]
  /\ sweeps = 0
  /\ http = NoRequest
  /\ sweepLog = "none"
  /\ cleanup = Procs
  /\ runtime = [p \in Instances |-> IF p \in Procs THEN Running ELSE Down]
  /\ waits = [j \in JobIds |-> <<>>]
  /\ proxy = ProxyIdle
  /\ poll = PollIdle

KeyValues == {"absent", "blank", "sk-key"}

Init == Start /\ keyEnv = "sk-key"

\* the same with OPENROUTER_API_KEY unset, blank, or set
InitEnv == Start /\ keyEnv \in KeyValues

\* the clock advances
AdvanceClock ==
  /\ now < MaxTime
  /\ now' = now + 1
  /\ UNCHANGED <<jobs, nextId, timer, inv, claims, log, stray, silent, test, sweeps, http, sweepLog, cleanup, runtime, waits, proxy, keyEnv, poll>>

\* request bodies of POST /api/jobs: job_type missing (""), unknown or known;
\* input_data missing, a string, an object whose messages is missing or
\* falsy, an object whose messages is [], an object whose messages is a
\* non-empty string, an object whose messages is a non-empty array
JobTypes == {"", "bogus", "prompt1"}
Inputs == {"absent", "string", "nomessages", "emptyarr", "notarray", "messages"}

\* if (!job_type || !input_data)
HasFields(type, input) == type # "" /\ input # "absent"

\* a handler that accepts any job_type that is present
ValidTypeAny(type) == type # ""

\* ['prompt1', 'prompt2', 'report_template'].includes(job_type)
ValidType(type) == type \in RecognizedTypes

\* !(typeof input_data !== 'object' || !input_data.messages)
ValidInput(input) == input \notin {"string", "nomessages"}

Accepted(type, input) == HasFields(type, input) /\ ValidType(type) /\ ValidInput(input)

\* POST /api/jobs
Submit(type, input) ==
  /\ nextId <= MaxJobs
  /\ Accepted(type, input)
  /\ jobs' = InsertJob(jobs, nextId, type, input, now)
  /\ nextId' = nextId + 1
  /\ http' = Http("submit", type, input, nextId, Reply(200, "pending", NULL, NULL, NoTime))
  /\ UNCHANGED <<now, timer, inv, claims, log, stray, silent, test, sweeps, sweepLog, cleanup, runtime, waits, proxy, keyEnv, poll>>

\* POST /api/jobs answered 400 by one of the three checks
Reject(type, input) ==
  /\ ~Accepted(type, input)
  /\ http' = Http("submit", type, input, 0, Reply(400, "", NULL, "invalid", NoTime))
  /\ UNCHANGED <<jobs, nextId, now, timer, inv, claims, log, stray, silent, test, sweeps, sweepLog, cleanup, runtime, waits, proxy, keyEnv, poll>>

\* POST /api/jobs whose INSERT throws: 500
SubmitError(type, input) ==
  /\ Accepted(type, input)
  /\ http' = Http("submit", type, input, 0, Reply(500, "", NULL, "Internal server error", NoTime))
  /\ UNCHANGED <<jobs, nextId, now, timer, inv, claims, log, stray, silent, test, sweeps, sweepLog, cleanup, runtime, waits, proxy, keyEnv, poll>>

\* the body of GET /api/jobs/:id for the table t
GetResponse(t, id) ==
  IF id \in DOMAIN t
    THEN Reply(200, t[id].status, t[id].result_data, t[id].error, t[id].completed_at)
    ELSE Reply(404, "", NULL, "Job not found", NoTime)

\* GET /api/jobs/:id for an id the column can hold
Get(id) ==
  /\ http' = Http("get", "", "", id, GetResponse(jobs, id))
  /\ UNCHANGED <<jobs, nextId, now, timer, inv, claims, log, stray, silent, test, sweeps, sweepLog, cleanup, runtime, waits, proxy, keyEnv, poll>>

\* GET /api/jobs/:id for an id the integer column id cannot hold
\* (/api/jobs/2147483648, /api/jobs/abc): req.params.id goes to the query
\* as it came, the SELECT throws and the catch answers 500; 0 stands for
\* the id, which is the id of no row
GetUnstorable ==
  /\ http' = Http("get", "", "unstorable", 0, Reply(500, "", NULL, "Internal server error", NoTime))
  /\ UNCHANGED <<jobs, nextId, now, timer, inv, claims, log, stray, silent, test, sweeps, sweepLog, cleanup, runtime, waits, proxy, keyEnv, poll>>

\* GET /api/jobs/:id whose SELECT throws: 500
GetError(id) ==
  /\ http' = Http("get", "", "", id, Reply(500, "", NULL, "Internal server error", NoTime))
  /\ UNCHANGED <<jobs, nextId, now, timer, inv, claims, log, stray, silent, test, sweeps, sweepLog, cleanup, runtime, waits, proxy, keyEnv, poll>>

\* the cutoff of a sweep that runs at time t
Cutoff(t) == t - Retention

\* a DELETE that goes by the age of the row, whatever its status
DeleteOldByAge(t, cutoff) ==
  [j \in {k \in DOMAIN t : ~(t[k].created_at < cutoff)} |-> t[j]]

\* a DELETE that removes one row per run (the eligible row of lowest id)
DeleteOldOne(t, cutoff) ==
  [j \in {k \in DOMAIN t :
            ~(/\ t[k].status \in {"completed", "failed"}
              /\ t[k].completed_at # NoTime
              /\ t[k].completed_at[1] < cutoff
              /\ \A m \in DOMAIN t :
                   (/\ t[m].status \in {"completed", "failed"}
                    /\ t[m].completed_at # NoTime
                    /\ t[m].completed_at[1] < cutoff) => k <= m)} |-> t[j]]

\* a DELETE that takes the rows completed at the cutoff as well
DeleteOldInclusive(t, cutoff) ==
  [j \in {k \in DOMAIN t :
            ~(/\ t[k].status \in {"completed", "failed"}
              /\ t[k].completed_at # NoTime
              /\ t[k].completed_at[1] <= cutoff)} |-> t[j]]

\* DELETE FROM jobs WHERE (status = 'completed' OR status = 'failed') AND completed_at < $1
DeleteOld(t, cutoff) ==
  [j \in {k \in DOMAIN t :
            ~(/\ t[k].status \in {"completed", "failed"}
              /\ t[k].completed_at # NoTime
              /\ t[k].completed_at[1] < cutoff)} |-> t[j]]

\* cleanupOldJobs, run by the hourly interval of a process
cleanupOldJobs(p) ==
  /\ runtime[p].sweeps > 0
  /\ jobs' = DeleteOld(jobs, Cutoff(now))
  /\ sweeps' = 1 - sweeps
  /\ sweepLog' = IF sweepLog = "error" THEN "recovered" ELSE sweepLog
  /\ UNCHANGED <<nextId, now, timer, inv, claims, log, stray, silent, test, http, cleanup, runtime, waits, proxy, keyEnv, poll>>

\* a cleanupOldJobs whose rejection is not caught: the process ends on the
\* unhandled rejection
CleanupErrorEscapes(p) ==
  /\ runtime[p].sweeps > 0
  /\ sweepLog' = "error"
  /\ timer' = timer \ {p}
  /\ cleanup' = cleanup \ {p}
  /\ runtime' = [runtime EXCEPT ![p] = Down]
  /\ inv' = [i \in Invs |-> IF inv[i].proc = p THEN Idle ELSE inv[i]]
  /\ UNCHANGED <<jobs, nextId, now, claims, log, stray, silent, test, sweeps, http, waits, proxy, keyEnv, poll>>

\* cleanupOldJobs whose DELETE throws: the catch logs 'Error cleaning up old jobs'
CleanupError(p) ==
  /\ runtime[p].sweeps > 0
  /\ sweepLog' = "error"
  /\ UNCHANGED <<jobs, nextId, now, timer, inv, claims, log, stray, silent, test, sweeps, http, cleanup, runtime, waits, proxy, keyEnv, poll>>

\* a timer callback that skips the run while an earlier one is in flight
TickGuarded(p) ==
  /\ runtime[p].ticks > 0
  /\ \A k \in Invs : inv[k].pc = "idle"
  /\ \E i \in Invs :
       /\ \A k \in Invs : k < i => inv[k].pc # "idle"
       /\ inv' = [inv EXCEPT ![i] = [Idle EXCEPT !.pc = "select", !.proc = p]]
  /\ UNCHANGED <<jobs, nextId, now, timer, claims, log, stray, silent, test, sweeps, http, sweepLog, cleanup, runtime, waits, proxy, keyEnv, poll>>

\* the setInterval callback of a process: processNextJob() is started and
\* awaits pool.connect(), BEGIN and the SELECT
Tick(p) ==
  /\ runtime[p].ticks > 0
  /\ \E i \in Invs :
       /\ inv[i].pc = "idle"
       /\ \A k \in Invs : k < i => inv[k].pc # "idle"
       /\ inv' = [inv EXCEPT ![i] = [Idle EXCEPT !.pc = "select", !.proc = p]]
  /\ UNCHANGED <<jobs, nextId, now, timer, claims, log, stray, silent, test, sweeps, http, sweepLog, cleanup, runtime, waits, proxy, keyEnv, poll>>

\* SELECT ... FOR UPDATE SKIP LOCKED returns; no row: COMMIT and return
Select(i) ==
  /\ inv[i].pc = "select"
  /\ IF Candidates(i) = {}
       THEN inv' = [inv EXCEPT ![i] = Idle]
       ELSE \E j \in Oldest(Candidates(i)) :
              inv' = [inv EXCEPT ![i].pc = "commit", ![i].job = j]
  /\ UNCHANGED <<jobs, nextId, now, timer, claims, log, stray, silent, test, sweeps, http, sweepLog, cleanup, runtime, waits, proxy, keyEnv, poll>>

\* a slip in the claim: the request is issued with the transaction still open
CommitDeferred(i) ==
  /\ inv[i].pc = "commit"
  /\ inv' = [inv EXCEPT ![i].pc = "fetch"]
  /\ UNCHANGED <<jobs, nextId, now, timer, claims, log, stray, silent, test, sweeps, http, sweepLog, cleanup, runtime, waits, proxy, keyEnv, poll>>

\* UPDATE jobs SET status = 'processing' inside the transaction, then COMMIT
Commit(i) ==
  /\ inv[i].pc = "commit"
  /\ jobs' = MarkProcessing(jobs, inv[i].job)
  /\ claims' = [claims EXCEPT ![inv[i].job] = @ + 1]
  /\ inv' = [inv EXCEPT ![i].pc = "fetch"]
  /\ UNCHANGED <<nextId, now, timer, log, stray, silent, test, sweeps, http, sweepLog, cleanup, runtime, waits, proxy, keyEnv, poll>>

\* a claim without a transaction: the UPDATE stays when the COMMIT fails
ClaimErrorNoRollback(i) ==
  /\ inv[i].pc \in {"select", "commit"}
  /\ jobs' = IF inv[i].pc = "commit" THEN MarkProcessing(jobs, inv[i].job) ELSE jobs
  /\ inv' = [inv EXCEPT ![i] = IF inv[i].pc = "commit" THEN RolledBack ELSE Idle]
  /\ UNCHANGED <<nextId, now, timer, claims, log, stray, silent, test, sweeps, http, sweepLog, cleanup, runtime, waits, proxy, keyEnv, poll>>

\* a store error in connect, BEGIN, SELECT, UPDATE or COMMIT: outer catch,
\* ROLLBACK, release; the slot keeps the error logged for a claim that had
\* selected a job until the next invocation takes the slot
ClaimError(i) ==
  /\ inv[i].pc \in {"select", "commit"}
  /\ inv' = [inv EXCEPT ![i] = IF inv[i].pc = "commit" THEN RolledBack ELSE Idle]
  /\ UNCHANGED <<jobs, nextId, now, timer, claims, log, stray, silent, test, sweeps, http, sweepLog, cleanup, runtime, waits, proxy, keyEnv, poll>>

\* a slip in the loop test: one attempt too many
ExhaustedOffByOne(retries) == retries > maxRetries

\* a slip in the loop test: one attempt too few
ExhaustedEarly(retries) == retries >= maxRetries - 1

\* a backoff that also sleeps before the first request
DelayAlways(retries) == (2 ^ retries) * BackoffUnit

\* if (retries > 0) delay = Math.pow(2, retries) * 1000
Delay(retries) == IF retries > 0 THEN (2 ^ retries) * BackoffUnit ELSE 0

\* if (retries >= maxRetries) throw fetchError
Exhausted(retries) == retries >= maxRetries

\* if (!apiKey) throw: the inner catch takes it before any request
KeyMissing(i) ==
  /\ inv[i].pc = "fetch"
  /\ getOpenRouterApiKey(keyEnv) = NULL
  /\ inv' = [inv EXCEPT ![i].pc = "fail", ![i].err = MsgNoKey]
  /\ UNCHANGED <<jobs, nextId, now, timer, claims, log, stray, silent, test, sweeps, http, sweepLog, cleanup, runtime, waits, proxy, keyEnv, poll>>

\* one iteration of the retry loop: fetch, checks, parse; catch: retries++
Attempt(i, r) ==
  /\ inv[i].pc = "fetch"
  /\ getOpenRouterApiKey(keyEnv) # NULL
  /\ Len(log[inv[i].job]) < maxRetries + 1
  /\ log' = [log EXCEPT ![inv[i].job] = Append(@, r.tag)]
  /\ waits' = [waits EXCEPT ![inv[i].job] = Append(@, Delay(inv[i].retries))]
  /\ stray' = (stray \/ claims[inv[i].job] # 1)
  /\ IF r.kind = "hang"
       THEN inv' = [inv EXCEPT ![i].pc = "hung"]
       ELSE LET a == AttemptResult(r) IN
            IF a.ok
              THEN IF a.text = NULL
                     THEN inv' = [inv EXCEPT ![i].pc = "fail", ![i].err = MsgNoLength]
                     ELSE inv' = [inv EXCEPT ![i].pc = "complete", ![i].result = a.text]
              ELSE IF Exhausted(inv[i].retries + 1)
                     THEN inv' = [inv EXCEPT ![i].pc = "fail", ![i].retries = @ + 1, ![i].err = a.msg]
                     ELSE inv' = [inv EXCEPT ![i].retries = @ + 1]
  /\ UNCHANGED <<jobs, nextId, now, timer, claims, silent, test, sweeps, http, sweepLog, cleanup, runtime, proxy, keyEnv, poll>>

\* the completed UPDATE returns
Complete(i) ==
  /\ inv[i].pc = "complete"
  /\ jobs' = MarkCompleted(jobs, inv[i].job, inv[i].result, now)
  /\ silent' = (silent \/ StatusOf(jobs, inv[i].job) # "processing")
  /\ inv' = [inv EXCEPT ![i] = Idle]
  /\ UNCHANGED <<nextId, now, timer, claims, log, stray, test, sweeps, http, sweepLog, cleanup, runtime, waits, proxy, keyEnv, poll>>

\* the completed UPDATE throws: inner catch
CompleteError(i) ==
  /\ inv[i].pc = "complete"
  /\ inv' = [inv EXCEPT ![i].pc = "fail", ![i].result = NULL, ![i].err = MsgStore]
  /\ UNCHANGED <<jobs, nextId, now, timer, claims, log, stray, silent, test, sweeps, http, sweepLog, cleanup, runtime, waits, proxy, keyEnv, poll>>

\* the failed UPDATE returns
Fail(i) ==
  /\ inv[i].pc = "fail"
  /\ jobs' = MarkFailed(jobs, inv[i].job, inv[i].err, now)
  /\ silent' = (silent \/ StatusOf(jobs, inv[i].job) # "processing")
  /\ inv' = [inv EXCEPT ![i] = Idle]
  /\ UNCHANGED <<nextId, now, timer, claims, log, stray, test, sweeps, http, sweepLog, cleanup, runtime, waits, proxy, keyEnv, poll>>

\* a slip in the error handling: no outer catch, the rejection ends the schedule
FailErrorEscapes(i) ==
  /\ inv[i].pc = "fail"
  /\ inv' = [inv EXCEPT ![i].pc = "rejected"]
  /\ timer' = timer \ {inv[i].proc}
  /\ cleanup' = cleanup \ {inv[i].proc}
  /\ runtime' = [runtime EXCEPT ![inv[i].proc] = Down]
  /\ UNCHANGED <<jobs, nextId, now, claims, log, stray, silent, test, sweeps, http, sweepLog, waits, proxy, keyEnv, poll>>

\* the failed UPDATE throws: outer catch, ROLLBACK outside a transaction, release
FailError(i) ==
  /\ inv[i].pc = "fail"
  /\ inv' = [inv EXCEPT ![i] = Idle]
  /\ UNCHANGED <<jobs, nextId, now, timer, claims, log, stray, silent, test, sweeps, http, sweepLog, cleanup, runtime, waits, proxy, keyEnv, poll>>

\* the process exits (killed, redeployed; server.js installs no signal
\* handler): its timers and its invocations in flight are gone, and the
\* store rolls back the claim transactions its connections had open
Crash(p) ==
  /\ p \in timer
  /\ timer' = timer \ {p}
  /\ cleanup' = cleanup \ {p}
  /\ runtime' = [runtime EXCEPT ![p] = Down]
  /\ inv' = [i \in Invs |-> IF inv[i].proc = p THEN Idle ELSE inv[i]]
  /\ UNCHANGED <<jobs, nextId, now, claims, log, stray, silent, test, sweeps, http, sweepLog, waits, proxy, keyEnv, poll>>

\* a start with the job processor switched off: no timer is set
RestartNoTimer(p) ==
  /\ p \notin timer
  /\ UNCHANGED vars

\* the process is started again: startServer, startBackgroundJobs
Restart(p) ==
  /\ p \notin timer
  /\ timer' = timer \cup {p}
  /\ cleanup' = cleanup \cup {p}
  /\ runtime' = [runtime EXCEPT ![p] = Running]
  /\ UNCHANGED <<jobs, nextId, now, inv, claims, log, stray, silent, test, sweeps, http, sweepLog, waits, proxy, keyEnv, poll>>

\* processNextJob() called in the lowest free slot
Invoke(p) ==
  \E i \in Invs :
    /\ inv[i].pc = "idle"
    /\ \A k \in Invs : k < i => inv[k].pc # "idle"
    /\ inv' = [inv EXCEPT ![i] = [Idle EXCEPT !.pc = "select", !.proc = p]]

\* a startBackgroundJobs that does not look at the handles it already holds
BackgroundNoGuard(p, rt) ==
  /\ IF enableJobProcessor(p)
       THEN Invoke(p) /\ timer' = timer \cup {p}
       ELSE UNCHANGED <<inv, timer, waits, proxy, keyEnv, poll>>
  /\ cleanup' = IF enableJobProcessor(p) THEN cleanup \cup {p} ELSE cleanup
  /\ runtime' = [rt EXCEPT
       ![p].ticks = @ + (IF enableJobProcessor(p) THEN 1 ELSE 0),
       ![p].sweeps = @ + (IF enableJobProcessor(p) THEN 1 ELSE 0)]

\* the body of startBackgroundJobs on an instance whose runtime state is rt:
\* an immediate processNextJob() and a 5 s interval unless the processor is
\* disabled or jobProcessingInterval is set, an hourly interval unless the
\* processor is disabled or jobCleanupInterval is set
Background(p, rt) ==
  /\ IF enableJobProcessor(p) /\ p \notin timer
       THEN Invoke(p) /\ timer' = timer \cup {p}
       ELSE UNCHANGED <<inv, timer, waits, proxy, keyEnv, poll>>
  /\ cleanup' = IF enableJobProcessor(p) /\ p \notin cleanup THEN cleanup \cup {p} ELSE cleanup
  /\ runtime' = [rt EXCEPT
       ![p].ticks = @ + (IF enableJobProcessor(p) /\ p \notin timer THEN 1 ELSE 0),
       ![p].sweeps = @ + (IF enableJobProcessor(p) /\ p \notin cleanup THEN 1 ELSE 0)]

\* startBackgroundJobs called on a started instance
startBackgroundJobs(p) ==
  /\ runtime[p].up
  /\ Background(p, runtime)
  /\ UNCHANGED <<jobs, nextId, now, claims, log, stray, silent, test, sweeps, http, sweepLog, waits, proxy, keyEnv, poll>>

\* startServer of an instance that is not running: startBackgroundJobs, then listen
startServer(p) ==
  /\ ~runtime[p].up
  /\ Background(p, [runtime EXCEPT ![p] = [up |-> TRUE, http |-> TRUE, ticks |-> 0, sweeps |-> 0]])
  /\ UNCHANGED <<jobs, nextId, now, claims, log, stray, silent, test, sweeps, http, sweepLog, waits, proxy, keyEnv, poll>>

\* a stopBackgroundJobs that forgets its handles without clearInterval
StoppedNoClear(p, rt) ==
  /\ timer' = timer \ {p}
  /\ cleanup' = cleanup \ {p}
  /\ runtime' = rt

\* the body of stopBackgroundJobs: clearInterval of each handle that is set
Stopped(p, rt) ==
  /\ timer' = timer \ {p}
  /\ cleanup' = cleanup \ {p}
  /\ runtime' = [rt EXCEPT
       ![p].ticks = @ - (IF p \in timer THEN 1 ELSE 0),
       ![p].sweeps = @ - (IF p \in cleanup THEN 1 ELSE 0)]

\* stopBackgroundJobs called on a started instance
stopBackgroundJobs(p) ==
  /\ runtime[p].up
  /\ Stopped(p, runtime)
  /\ UNCHANGED <<jobs, nextId, now, inv, claims, log, stray, silent, test, sweeps, http, sweepLog, waits, proxy, keyEnv, poll>>

\* shutdown: stopBackgroundJobs, then httpServer.close; the process and its
\* invocations in flight go on
shutdown(p) ==
  /\ runtime[p].up
  /\ Stopped(p, [runtime EXCEPT ![p].http = FALSE])
  /\ UNCHANGED <<jobs, nextId, now, inv, claims, log, stray, silent, test, sweeps, http, sweepLog, waits, proxy, keyEnv, poll>>

\* a job submitted through the HTTP server of one instance
SubmitThrough(p) ==
  /\ runtime[p].http
  /\ \E type \in {"prompt1"}, input \in {"messages"} : Submit(type, input)

\* POST /api/openrouter/chat/completions with step and messages, key configured
ProxyRequest ==
  /\ proxy.pc = "idle"
  /\ proxy' = [ProxyIdle EXCEPT !.pc = "loop"]
  /\ UNCHANGED <<jobs, nextId, now, timer, inv, claims, log, stray, silent, test, sweeps, http, sweepLog, cleanup, runtime, waits, keyEnv, poll>>

\* one iteration of the proxy's retry loop, the upstream answering as it
\* answered the same request of the worker for job j; after maxRetries
\* failed iterations the outer catch sends 500
ProxyAttempt(j) ==
  /\ proxy.pc = "loop"
  /\ Len(proxy.log) < Len(log[j])
  /\ LET r == ByTag(log[j][Len(proxy.log) + 1])
         a == ProxyResult(r)
         seen == [proxy EXCEPT !.log = Append(@, r.tag), !.waits = Append(@, Delay(proxy.retries))]
     IN  proxy' =
           IF ~a.retry THEN [seen EXCEPT !.pc = "done", !.code = a.code]
           ELSE IF Exhausted(proxy.retries + 1)
                  THEN [seen EXCEPT !.pc = "done", !.retries = @ + 1, !.code = 500]
                  ELSE [seen EXCEPT !.retries = @ + 1]
  /\ UNCHANGED <<jobs, nextId, now, timer, inv, claims, log, stray, silent, test, sweeps, http, sweepLog, cleanup, runtime, waits, keyEnv, poll>>

\* the client starts pollJobStatus for a job it created
pollJobStatus(j) ==
  /\ poll.pc = "idle"
  /\ j \in DOMAIN jobs
  /\ poll' = [PollIdle EXCEPT !.pc = "polling", !.id = j]
  /\ UNCHANGED <<jobs, nextId, now, timer, inv, claims, log, stray, silent, test, sweeps, sweepLog, cleanup, runtime, waits, proxy, keyEnv, http>>

\* poll(): GET /api/jobs/:id is answered by the handler
Poll ==
  /\ poll.pc = "polling"
  /\ http' = Http("get", "", "", poll.id, GetResponse(jobs, poll.id))
  /\ poll' = PollStep(poll, GetResponse(jobs, poll.id))
  /\ UNCHANGED <<jobs, nextId, now, timer, inv, claims, log, stray, silent, test, sweeps, sweepLog, cleanup, runtime, waits, proxy, keyEnv>>

\* poll(): the SELECT of the handler throws and the request is answered 500
PollFails ==
  /\ poll.pc = "polling"
  /\ http' = Http("get", "", "", poll.id, Reply(500, "", NULL, "Internal server error", NoTime))
  /\ poll' = PollStep(poll, Reply(500, "", NULL, "Internal server error", NoTime))
  /\ UNCHANGED <<jobs, nextId, now, timer, inv, claims, log, stray, silent, test, sweeps, sweepLog, cleanup, runtime, waits, proxy, keyEnv>>

\* test_db_connection.js: SELECT NOW(), then the INSERT of a test job
TestInsert ==
  /\ test.pc = "start"
  /\ nextId <= MaxJobs
  /\ jobs' = InsertJob(jobs, nextId, "test_job", "nomessages", now)
  /\ nextId' = nextId + 1
  /\ test' = [pc |-> "inserted", id |-> nextId]
  /\ UNCHANGED <<now, timer, inv, claims, log, stray, silent, sweeps, http, sweepLog, cleanup, runtime, waits, proxy, keyEnv, poll>>

\* test_db_connection.js: DELETE FROM jobs WHERE id = $1 (waits for a row lock)
TestDelete ==
  /\ test.pc = "inserted"
  /\ \A i \in Invs : ~(inv[i].pc = "commit" /\ inv[i].job = test.id)
  /\ jobs' = DeleteById(jobs, test.id)
  /\ test' = [test EXCEPT !.pc = "done"]
  /\ UNCHANGED <<nextId, now, timer, inv, claims, log, stray, silent, sweeps, http, sweepLog, cleanup, runtime, waits, proxy, keyEnv, poll>>

\* ------------------------------------------------------ specifications
CoreResponses == {RespOkA, RespShort}
StoreResponses == {RespOkA, RespShort, RespNoContent}
RetryResponses == {RespOkA, RespOkB, RespShort, RespShort499, RejectTimeout}
LiveResponses == {RespOkA, RespShort, NeverSettles}
SweepResponses == {RespOkA, RespNoContent}
PermResponses == {RespOkA, RespHttp401, RespHttp500}
ProxyResponses == {RespOkA, RespShort, RespHttp500, RespBadJson, RejectTimeout}
ParseResponses == {RespOkA, RespShort, RespBadJson, RespNoChoices, RespNoContent}

Worker(i, rs) ==
  \/ Select(i)
  \/ Commit(i)
  \/ \E r \in rs : Attempt(i, r)
  \/ Complete(i)
  \/ Fail(i)

StoreErrors(i) ==
  \/ ClaimError(i)
  \/ CompleteError(i)
  \/ FailError(i)

SubmitValid == \E type \in {"prompt1"}, input \in {"messages"} : Submit(type, input)

\* several processes, overlapping ticks, store errors, within one reading of the clock
Next ==
  \/ SubmitValid
  \/ \E p \in Procs : Tick(p)
  \/ \E i \in Invs : Worker(i, CoreResponses)
  \/ \E i \in Invs : StoreErrors(i)

Spec == Init /\ [][Next]_vars

\* the same over a stretch of time, with the diagnostic script run once
\* against the same database
NextTest ==
  \/ Next
  \/ AdvanceClock
  \/ TestInsert
  \/ TestDelete

SpecTest == Init /\ [][NextTest]_vars

\* one invocation at a time on a healthy store, every kind of retryable attempt
NextRetry ==
  \/ SubmitValid
  \/ (\A i \in Invs : inv[i].pc = "idle") /\ Tick("p1")
  \/ \E i \in Invs : Worker(i, RetryResponses)

SpecRetry == Init /\ [][NextRetry]_vars

\* one invocation at a time on a store that may throw in every statement,
\* with responses that parse but carry no text
NextStore ==
  \/ SubmitValid
  \/ (\A i \in Invs : inv[i].pc = "idle") /\ \E p \in Procs : Tick(p)
  \/ \E i \in Invs : Worker(i, StoreResponses)
  \/ \E i \in Invs : StoreErrors(i)

SpecStore == Init /\ [][NextStore]_vars

\* one invocation at a time on a healthy store, an upstream that rejects the
\* request (401) or breaks (500)
NextPerm ==
  \/ SubmitValid
  \/ (\A i \in Invs : inv[i].pc = "idle") /\ Tick("p1")
  \/ \E i \in Invs : Worker(i, PermResponses)

SpecPerm == Init /\ [][NextPerm]_vars

\* the hourly sweep with the clock: invocations one at a time, jobs that
\* complete, fail, or stay in processing because the failed UPDATE threw
NextSweep ==
  \/ SubmitValid
  \/ AdvanceClock
  \/ (\A i \in Invs : inv[i].pc = "idle") /\ Tick("p1")
  \/ \E i \in Invs : Worker(i, SweepResponses)
  \/ \E i \in Invs : FailError(i)
  \/ cleanupOldJobs("p1")

SpecSweep == Init /\ [][NextSweep]_vars

\* the sweep on a store that may fail it
NextSweepErr ==
  \/ NextSweep
  \/ CleanupError("p1")

SpecSweepErr == Init /\ [][NextSweepErr]_vars

\* one instance whose background jobs are started and stopped while it works
NextTimers ==
  \/ SubmitValid
  \/ Tick("p1")
  \/ \E i \in Invs : Worker(i, SweepResponses)
  \/ cleanupOldJobs("p1")
  \/ startBackgroundJobs("p1")
  \/ stopBackgroundJobs("p1")
  \/ shutdown("p1")

SpecTimers == Init /\ [][NextTimers]_vars

\* the same on a healthy store with every await settling; when the
\* background jobs are started or stopped is up to the caller
SpecStop ==
  /\ Init
  /\ [][NextTimers]_vars
  /\ \A i \in Invs : WF_vars(Worker(i, SweepResponses))

\* a web instance with the processor disabled next to a worker instance
\* that can be stopped and started
NextOff ==
  \/ startServer("web")
  \/ startBackgroundJobs("web")
  \/ stopBackgroundJobs("web")
  \/ SubmitThrough("web")
  \/ \E p \in {"web", "p1"} : Tick(p)
  \/ \E p \in {"web", "p1"} : cleanupOldJobs(p)
  \/ \E i \in Invs : Worker(i, SweepResponses)
  \/ startBackgroundJobs("p1")
  \/ stopBackgroundJobs("p1")

SpecOff == Init /\ [][NextOff]_vars

\* one invocation at a time with bodies that are short, do not parse, or
\* parse without choices or without the text
NextParse ==
  \/ SubmitValid
  \/ (\A i \in Invs : inv[i].pc = "idle") /\ Tick("p1")
  \/ \E i \in Invs : Worker(i, ParseResponses)

SpecParse == Init /\ [][NextParse]_vars

\* the worker on its jobs, one invocation at a time, and a proxy request
\* that meets the upstream outcomes the worker met for job 1
NextProxy ==
  \/ SubmitValid
  \/ (\A i \in Invs : inv[i].pc = "idle") /\ Tick("p1")
  \/ \E i \in Invs : Worker(i, ProxyResponses)
  \/ ProxyRequest
  \/ ProxyAttempt(1)

SpecProxy == Init /\ [][NextProxy]_vars

\* the connections of the pool of process p that invocations have checked
\* out: client is taken by pool.connect() and released in the finally
CheckedOut(p) == Cardinality({i \in Invs : inv[i].pc # "idle" /\ inv[i].proc = p})
FreeConnections(p) == PoolSize - CheckedOut(p)

\* a tick whose pool.connect() is given a connection
Connect(p) == FreeConnections(p) > 0 /\ Tick(p)

\* the outcome UPDATE through pool.query, which needs a free connection
PoolQuery(i) == FreeConnections(inv[i].proc) > 0 /\ (Complete(i) \/ Fail(i))

\* overlapping invocations of one process on a pool of PoolSize connections
NextPool ==
  \/ SubmitValid
  \/ Connect("p1")
  \/ \E i \in Invs : Select(i) \/ Commit(i)
  \/ \E i \in Invs : \E r \in CoreResponses : Attempt(i, r)
  \/ \E i \in Invs : PoolQuery(i)

SpecPool == Init /\ [][NextPool]_vars

\* overlapping invocations of one process, with or without a credential
NextKey ==
  \/ SubmitValid
  \/ Tick("p1")
  \/ \E i \in Invs : Worker(i, CoreResponses)
  \/ \E i \in Invs : KeyMissing(i)

SpecKey == InitEnv /\ [][NextKey]_vars

\* the client polling job 1 while the worker may or may not get to it:
\* every status request is answered, nothing else is sure to happen
NextPoll ==
  \/ SubmitValid
  \/ (\A i \in Invs : inv[i].pc = "idle") /\ Tick("p1")
  \/ \E i \in Invs : Worker(i, SweepResponses)
  \/ pollJobStatus(1)
  \/ Poll
  \/ PollFails

SpecPoll == Init /\ [][NextPoll]_vars /\ WF_vars(Poll)

\* reads of job status next to the worker and the sweep
NextRead ==
  \/ NextSweep
  \/ \E id \in JobIds : Get(id)
  \/ GetUnstorable

SpecRead == Init /\ [][NextRead]_vars

\* the sweep and test_db_connection.js on one table
NextOps ==
  \/ NextSweep
  \/ TestInsert
  \/ TestDelete

SpecOps == Init /\ [][NextOps]_vars

\* the jobs API with every kind of request body, and one invocation at a time
NextApi ==
  \/ \E type \in JobTypes, input \in Inputs : Submit(type, input)
  \/ \E type \in JobTypes, input \in Inputs : Reject(type, input)
  \/ \E type \in JobTypes, input \in Inputs : SubmitError(type, input)
  \/ \E id \in JobIds : Get(id)
  \/ \E id \in JobIds : GetError(id)
  \/ (\A i \in Invs : inv[i].pc = "idle") /\ Tick("p1")
  \/ \E i \in Invs : Worker(i, SweepResponses)

SpecApi == Init /\ [][NextApi]_vars

\* the jobs API and test_db_connection.js on one table
NextApiTest ==
  \/ NextApi
  \/ TestInsert
  \/ TestDelete

SpecApiTest == Init /\ [][NextApiTest]_vars

\* overlapping claims, by the ticks of one process, of jobs submitted at
\* different times
NextOrder ==
  \/ SubmitValid
  \/ AdvanceClock
  \/ Tick("p1")
  \/ \E i \in Invs : Worker(i, SweepResponses)
  \/ \E i \in Invs : ClaimError(i)

SpecOrder == Init /\ [][NextOrder]_vars

\* overlapping invocations of two processes on a healthy store
NextClaim ==
  \/ SubmitValid
  \/ \E p \in Procs : Tick(p)
  \/ \E i \in Invs : Worker(i, CoreResponses)

SpecClaim == Init /\ [][NextClaim]_vars

\* a process that exits and is started again, one invocation at a time,
\* with the clock and the sweep
NextCrash ==
  \/ SubmitValid
  \/ AdvanceClock
  \/ (\A i \in Invs : inv[i].pc = "idle") /\ Tick("p1")
  \/ \E i \in Invs : Worker(i, SweepResponses)
  \/ Crash("p1")
  \/ Restart("p1")
  \/ cleanupOldJobs("p1")

SpecCrash == Init /\ [][NextCrash]_vars

\* the process exits while it is working on a job and is started again; the
\* timers keep firing, every await settles and a stopped process is started
CrashBusy == (\E i \in Invs : Working(i) /\ inv[i].proc = "p1") /\ Crash("p1")

NextRestart ==
  \/ SubmitValid
  \/ AdvanceClock
  \/ (\A i \in Invs : inv[i].pc = "idle") /\ Tick("p1")
  \/ \E i \in Invs : Worker(i, SweepResponses)
  \/ CrashBusy
  \/ Restart("p1")

SpecRestart ==
  /\ Init
  /\ [][NextRestart]_vars
  /\ WF_vars((\A i \in Invs : inv[i].pc = "idle") /\ Tick("p1"))
  /\ \A i \in Invs : WF_vars(Worker(i, SweepResponses))
  /\ WF_vars(Restart("p1"))

\* the upstream leaves at most one request unanswered, so the other
\* invocations keep running beside the one that waits
LiveUpstream(i) == IF i = 1 THEN LiveResponses ELSE CoreResponses

\* a healthy store and processes that stay alive: the timers keep firing and
\* every await that can settle does; the upstream may never answer
NextLive ==
  \/ SubmitValid
  \/ \E p \in Procs : Tick(p)
  \/ \E i \in Invs : Worker(i, LiveUpstream(i))

SpecLive ==
  /\ Init
  /\ [][NextLive]_vars
  /\ WF_vars(\E p \in Procs : Tick(p))
  /\ \A i \in Invs : WF_vars(Worker(i, LiveUpstream(i)))

\* one process whose timer keeps firing on a healthy store, while the
\* request of one invocation may never be answered
NextSlow ==
  \/ SubmitValid
  \/ Tick("p1")
  \/ \E i \in Invs : Worker(i, LiveUpstream(i))

SpecSlow ==
  /\ Init
  /\ [][NextSlow]_vars
  /\ WF_vars(Tick("p1"))
  /\ \A i \in Invs : WF_vars(Worker(i, LiveUpstream(i)))

\* ------------------------------------------------------------- helpers
Terminal == {"completed", "failed"}
Holds(i, j) == Working(i) /\ inv[i].job = j
Held(j) == \E i \in Invs : Holds(i, j)
HeldAt(j, pc) == \E i \in Invs : Holds(i, j) /\ inv[i].pc = pc
\* the attempt did not produce a result text
AttemptFailed(tag) ==
  LET r == ByTag(tag) IN r.kind # "resp" \/ ~AttemptResult(r).ok \/ AttemptResult(r).text = NULL
IsShort(r) == r.kind = "resp" /\ ResponseOk(r) /\ r.len < MinBodyLen

\* ------------------------------------------------------------ C1
\* C1: no job is claimed by more than one invocation: each job makes the
\* pending->processing transition at most once, no two invocations hold the
\* same job, and every upstream request is for a job claimed exactly once.
C1_ClaimedOnce ==
  /\ \A j \in JobIds : claims[j] <= 1
  /\ \A i, k \in Invs : (i # k /\ Working(i) /\ Working(k)) => inv[i].job # inv[k].job
  /\ ~stray

\* two claim transactions are open at once, each with its own locked row
C1_Witness ==
  \E i, k \in Invs : i # k /\ inv[i].pc = "commit" /\ inv[k].pc = "commit"
                     /\ inv[i].job # inv[k].job

\* ------------------------------------------------------------ C2
LegalStep(a, b) ==
  \/ a = b
  \/ <<a, b>> \in {<<"pending", "processing">>, <<"processing", "completed">>,
                   <<"processing", "failed">>}

\* C2: the status of a job changes only along pending->processing,
\* processing->completed, processing->failed, and a new job starts pending.
C2_Forward ==
  [][ /\ \A j \in DOMAIN jobs \cap DOMAIN jobs' : LegalStep(jobs[j].status, jobs'[j].status)
      /\ \A j \in DOMAIN jobs' \ DOMAIN jobs : jobs'[j].status = "pending" ]_vars

\* one job went through to completed and another through to failed
C2_Witness ==
  \E j, k \in DOMAIN jobs : jobs[j].status = "completed" /\ jobs[k].status = "failed"
                            /\ claims[j] = 1 /\ claims[k] = 1

\* ------------------------------------------------------------ C3
\* C3: a completed job has a result and no error, a failed job has an error
\* and no result, also after a store error while the outcome was recorded.
C3_ExactlyOne ==
  \A j \in DOMAIN jobs :
    /\ jobs[j].status = "completed" => jobs[j].result_data # NULL /\ jobs[j].error = NULL
    /\ jobs[j].status = "failed" => jobs[j].error # NULL /\ jobs[j].result_data = NULL

\* the completed UPDATE of one job threw after a successful attempt and the
\* failed UPDATE went through; another job failed on a response without text
C3_Witness ==
  \E j, k \in DOMAIN jobs :
    /\ jobs[j].status = "failed" /\ jobs[j].error = MsgStore
    /\ log[j] # <<>> /\ ~AttemptFailed(log[j][Len(log[j])])
    /\ jobs[k].status = "failed" /\ jobs[k].error = MsgNoLength

\* ------------------------------------------------------------ C4
\* C4: an outcome recorded for a job that is not processing, or for an id
\* that has no row, is rejected with an error: no outcome UPDATE returns
\* normally for such a job.
C4_Rejected == ~silent

\* ------------------------------------------------------------ C5
\* C5: at every moment at most one job claimed by a process is in
\* processing under the control of that process.
C5_OneAtATime ==
  \A p \in Procs : Cardinality({i \in Invs : inv[i].proc = p /\ Working(i)}) <= 1

\* ------------------------------------------------------------ C6
\* C6: while the claiming process stays alive, a job in processing
\* eventually reaches completed or failed, whatever the upstream does.
C6_EventuallyTerminal ==
  \A j \in JobIds :
    (StatusOf(jobs, j) = "processing") ~> (StatusOf(jobs, j) \in Terminal)

\* ------------------------------------------------------------ C7
\* a step in which invocation i meets an exception
FailureStep(i) ==
  \/ inv[i].pc = "fetch" /\ inv'[i] # inv[i] /\ inv'[i].pc # "complete"
  \/ inv[i].pc = "complete" /\ inv'[i].pc = "fail"
  \/ inv[i].pc = "fail" /\ inv'[i] # inv[i]
  \/ inv[i].pc \in {"select", "commit"} /\ inv'[i].pc = "idle"

\* C7: an exception met while processing a job stays inside processNextJob:
\* the invocation goes on to the retry, to the failed UPDATE or to its end,
\* no timer is cleared, no other invocation and no other job is touched.
C7_Contained ==
  [][ /\ timer \subseteq timer'
      /\ \A i \in Invs : FailureStep(i) =>
           /\ inv'[i].pc \in {"idle", "fetch", "fail"}
           /\ \A k \in Invs \ {i} : inv'[k] = inv[k]
           /\ \A j \in DOMAIN jobs \ {inv[i].job} : j \in DOMAIN jobs' /\ jobs'[j] = jobs[j] ]_vars

\* a job failed on a store error, the slot is free again, and another job is being processed
C7_Witness ==
  \E j \in DOMAIN jobs : \E i \in Invs :
    /\ jobs[j].status = "failed" /\ jobs[j].error = MsgStore
    /\ inv[i].pc = "fetch" /\ inv[i].job # j /\ log[inv[i].job] = <<>>
    /\ \A k \in Invs \ {i} : inv[k].pc = "idle"

\* ------------------------------------------------------------ C8
\* C8: at most 3 upstream requests are issued for a job, and after the third
\* failed attempt the invocation that holds the job goes to the failed
\* UPDATE, which marks the job failed when it returns.
C8_ThreeAttempts ==
  \A j \in JobIds :
    /\ Len(log[j]) <= maxRetries
    /\ (Len(log[j]) = maxRetries /\ \A n \in 1..maxRetries : AttemptFailed(log[j][n])) =>
         \/ HeldAt(j, "fail")
         \/ ~Held(j) /\ StatusOf(jobs, j) = "failed"
         \/ ~Held(j) /\ StatusOf(jobs, j) = "processing"

\* three attempts failed and the job is failed with the message of a failed attempt
C8_Witness ==
  \E j \in DOMAIN jobs :
    /\ Len(log[j]) = maxRetries /\ \A n \in 1..maxRetries : AttemptFailed(log[j][n])
    /\ jobs[j].status = "failed" /\ jobs[j].error # MsgStore

\* ------------------------------------------------------------ C9
\* C9: after two attempts that timed out a third attempt is made, and when
\* it succeeds the job is completed with the text of attempt 3 and no error.
C9_ThirdAttempt ==
  \A j \in JobIds :
    /\ log[j] = <<"timeout", "timeout">> => HeldAt(j, "fetch")
    /\ log[j] = <<"timeout", "timeout", "okB">> =>
         \/ \E i \in Invs : Holds(i, j) /\ inv[i].pc = "complete" /\ inv[i].result = "b"
         \/ /\ ~Held(j)
            /\ StatusOf(jobs, j) = "completed"
            /\ jobs[j].result_data = "b"
            /\ jobs[j].error = NULL

\* the job is completed with the text of attempt 3
C9_Witness ==
  \E j \in DOMAIN jobs :
    /\ log[j] = <<"timeout", "timeout", "okB">>
    /\ jobs[j].status = "completed" /\ jobs[j].result_data = "b" /\ jobs[j].error = NULL

\* ------------------------------------------------------------ C10
\* C10: a success-status body of fewer than 500 characters is a failed
\* attempt: it is never recorded as the result, it is followed by a retry
\* while attempts remain, and a job whose last attempt was short is failed.
C10_ShortBody ==
  \A j \in JobIds :
    log[j] # <<>> /\ IsShort(ByTag(log[j][Len(log[j])])) =>
      /\ StatusOf(jobs, j) # "completed"
      /\ Len(log[j]) < maxRetries => HeldAt(j, "fetch")
      /\ Len(log[j]) >= maxRetries =>
           \/ \E i \in Invs : Holds(i, j) /\ inv[i].pc = "fail"
                              /\ inv[i].err = MsgShort(ByTag(log[j][Len(log[j])]).len)
           \/ /\ ~Held(j)
              /\ StatusOf(jobs, j) = "failed"
              /\ jobs[j].result_data = NULL
              /\ jobs[j].error = MsgShort(ByTag(log[j][Len(log[j])]).len)

\* every attempt returned a short body, the last of 499 characters, and the job is failed
C10_Witness ==
  \E j \in DOMAIN jobs :
    /\ Len(log[j]) = maxRetries
    /\ \A n \in 1..maxRetries : IsShort(ByTag(log[j][n]))
    /\ log[j][maxRetries] = "short499"
    /\ jobs[j].status = "failed"

\* ------------------------------------------------------------ C11
\* the message of the error thrown by an attempt that met response tag
MsgOf(tag) ==
  IF tag = "timeout" THEN MsgTimeout
  ELSE IF tag = "short" THEN MsgShort(10)
  ELSE IF tag = "short499" THEN MsgShort(499)
  ELSE IF tag = "http401" THEN MsgHttp(401)
  ELSE IF tag = "http500" THEN MsgHttp(500)
  ELSE "none"

\* C11: when every attempt for a job failed, the invocation carries the
\* message of the last attempt to the failed UPDATE, and the job is failed
\* with that message as its error and with no result.
C11_LastError ==
  \A j \in JobIds :
    (Len(log[j]) = maxRetries /\ \A n \in 1..maxRetries : AttemptFailed(log[j][n])) =>
      \/ \E i \in Invs : Holds(i, j) /\ inv[i].pc = "fail"
                         /\ inv[i].err = MsgOf(log[j][maxRetries])
      \/ /\ ~Held(j)
         /\ StatusOf(jobs, j) = "failed"
         /\ jobs[j].error = MsgOf(log[j][maxRetries])
         /\ jobs[j].result_data = NULL

\* three attempts failed in three different ways and the error is that of the third
C11_Witness ==
  \E j \in DOMAIN jobs :
    /\ log[j] = <<"short", "timeout", "short499">>
    /\ jobs[j].status = "failed"
    /\ jobs[j].error = MsgShort(499)

\* ------------------------------------------------------------ C12
\* C12: a non-retryable failure is not retried: no request is issued for
\* a job after the upstream rejected a request for it with status 401.
C12_NoRetryAfterReject ==
  \A j \in JobIds : \A n \in 1..Len(log[j]) :
    log[j][n] = "http401" => n = Len(log[j])

\* ------------------------------------------------------------ C13
\* the row is completed or failed and was completed before the cutoff
Expired(row, cutoff) ==
  /\ row.status \in {"completed", "failed"}
  /\ row.completed_at # NoTime
  /\ row.completed_at[1] < cutoff

\* the id was handed out and its row is gone
Removed(j) == j < nextId /\ j \notin DOMAIN jobs

\* C13: one run of the sweeper removes exactly the completed and failed
\* jobs whose completed_at is strictly before now - 6 hours, and leaves
\* every other row as it was.
C13_SweepExact ==
  [][sweeps' # sweeps =>
       /\ DOMAIN jobs' = {j \in DOMAIN jobs : ~Expired(jobs[j], Cutoff(now))}
       /\ \A j \in DOMAIN jobs' : jobs'[j] = jobs[j]]_vars

\* a sweep removed a job, and a job completed exactly six hours ago is kept
C13_Witness ==
  /\ sweeps = 1
  /\ \E j \in JobIds : Removed(j)
  /\ \E k \in DOMAIN jobs :
       /\ jobs[k].status \in {"completed", "failed"}
       /\ jobs[k].completed_at = At(Cutoff(now))

\* ------------------------------------------------------------ C14
\* C14 as stated: a row that disappears was completed or failed, and it
\* disappears in a run of the sweeper.
C14_OnlySweeper ==
  [][\A j \in DOMAIN jobs :
       j \notin DOMAIN jobs' =>
         sweeps' # sweeps /\ jobs[j].status \in {"completed", "failed"}]_vars

\* C14 amended: the server removes a row only in a run of the sweeper and
\* only when the row is completed or failed and past the cutoff; the one
\* other removal is test_db_connection.js deleting the row it inserted.
C14_ServerRemoval ==
  [][\A j \in DOMAIN jobs :
       j \notin DOMAIN jobs' =>
         \/ sweeps' # sweeps /\ Expired(jobs[j], Cutoff(now))
         \/ /\ sweeps' = sweeps
            /\ test.pc = "inserted" /\ test.id = j /\ test'.pc = "done"]_vars

\* a job stuck in processing since before the cutoff is still there after a
\* sweep removed a job submitted after it
C14_Witness ==
  \E j \in DOMAIN jobs : \E k \in JobIds :
    /\ jobs[j].status = "processing" /\ ~Held(j)
    /\ jobs[j].created_at < Cutoff(now)
    /\ j < k /\ Removed(k) /\ k # test.id

\* ------------------------------------------------------------ C15
\* C15: a second run of the sweeper with the same cutoff, right after a
\* run and with no change to any job in between, deletes no row.
C15_Idempotent ==
  [][sweeps' # sweeps => DeleteOld(jobs', Cutoff(now')) = jobs']_vars

\* the sweeper ran twice, removed two jobs in all
C15_Witness ==
  /\ sweeps = 0
  /\ \E j \in JobIds, k \in JobIds : j # k /\ Removed(j) /\ Removed(k)

\* ------------------------------------------------------------ C16
\* C16: a submit whose job_type is not one of the recognized types is
\* answered 400 and leaves the table as it was.
C16_UnknownType ==
  [][(http' # http /\ http'.op = "submit" /\ http'.type \notin RecognizedTypes) =>
       /\ http'.res.code = 400
       /\ jobs' = jobs
       /\ nextId' = nextId]_vars

\* an unknown job_type with a well-formed input_data was answered 400 while
\* the table holds jobs
C16_Witness ==
  /\ http.op = "submit" /\ http.type = "bogus" /\ http.input = "messages"
  /\ http.res.code = 400
  /\ DOMAIN jobs # {}

\* ------------------------------------------------------------ C17
\* C17: every job in the table has an input_data whose messages is a
\* non-empty sequence (every other submit was answered 400).
C17_NonEmptyMessages ==
  \A j \in DOMAIN jobs : jobs[j].input_data = "messages"

\* ------------------------------------------------------------ C18
\* C18: a submit of a recognized type with a non-empty message sequence is
\* not answered 400; an accepted submit inserts a pending row with no
\* result, error or completed_at, starts and waits for no processing, and a
\* GET of the new id right after it answers pending with no result and error.
C18_SubmitPending ==
  [][(http' # http /\ http'.op = "submit") =>
       /\ (http'.type \in RecognizedTypes /\ http'.input = "messages") => http'.res.code # 400
       /\ http'.res.code = 200 =>
            /\ http'.id \notin DOMAIN jobs
            /\ http'.id \in DOMAIN jobs'
            /\ jobs'[http'.id] = [job_type |-> http'.type, status |-> "pending",
                                  input_data |-> http'.input, result_data |-> NULL,
                                  error |-> NULL, created_at |-> now, completed_at |-> NoTime]
            /\ \A j \in DOMAIN jobs : jobs'[j] = jobs[j]
            /\ inv' = inv /\ log' = log
            /\ http'.res.status = "pending"
            /\ GetResponse(jobs', http'.id) = Reply(200, "pending", NULL, NULL, NoTime)]_vars

\* a submit was answered with a new pending job while an invocation is busy
\* with an earlier job
C18_Witness ==
  /\ http.op = "submit" /\ http.res.code = 200
  /\ http.id \in DOMAIN jobs /\ jobs[http.id].status = "pending"
  /\ \E i \in Invs : inv[i].pc = "fetch" /\ inv[i].job # http.id

\* ------------------------------------------------------------ C19
\* C19: when the last request for a job returned a completion, the job is
\* completed with the generated text as result_data, completed_at set and
\* no error, and GET /api/jobs/:id reports completed with that text.
C19_Completed ==
  \A j \in JobIds :
    (log[j] # <<>> /\ ~AttemptFailed(log[j][Len(log[j])])) =>
      LET text == ByTag(log[j][Len(log[j])]).content IN
        \/ \E i \in Invs : Holds(i, j) /\ inv[i].pc = "complete" /\ inv[i].result = text
        \/ /\ ~Held(j)
           /\ StatusOf(jobs, j) = "completed"
           /\ jobs[j].result_data = text
           /\ jobs[j].completed_at # NoTime
           /\ jobs[j].error = NULL
           /\ GetResponse(jobs, j).status = "completed"
           /\ GetResponse(jobs, j).result = text

\* one job, one tick, one request that succeeded: GET reports the text
C19_Witness ==
  /\ nextId = 2
  /\ log[1] = <<"okA">>
  /\ \A i \in Invs : inv[i].pc = "idle"
  /\ GetResponse(jobs, 1) = Reply(200, "completed", "a", NULL, At(now))

C21_ExactlyOneTakes ==
  [][\A i \in Invs :
       /\ (inv[i].pc = "select" /\ inv'[i].pc = "commit") =>
            \A k \in Invs : k # i =>
              ~(inv'[k].job = inv'[i].job /\ inv'[k].pc \in {"commit", "fetch", "hung", "complete", "fail"})
       /\ (inv[i].pc = "select" /\ inv'[i].pc = "idle") =>
            \A j \in DOMAIN jobs :
              jobs[j].status = "pending" =>
                \E k \in Invs : k # i /\ inv[k].pc = "commit" /\ inv[k].job = j
       /\ inv[i].pc = "commit" => inv'[i].pc \in {"commit", "fetch"}
       /\ (inv[i].pc = "commit" /\ inv'[i].pc = "fetch") =>
            jobs'[inv[i].job].status = "processing" /\ claims'[inv[i].job] = 1]_vars

\* the store holds one job, pending; one claim has selected it and a second
\* claim is about to run its SELECT
C21_Witness ==
  /\ nextId = 2 /\ DOMAIN jobs = {1} /\ jobs[1].status = "pending"
  /\ \E i \in Invs, k \in Invs :
       /\ i # k
       /\ inv[i].pc = "commit" /\ inv[i].job = 1
       /\ inv[k].pc = "select"

\* ------------------------------------------------------------ C22
\* the job is processing and no invocation holds it: its process exited
\* between the claim and the outcome UPDATE
Orphaned(j) == j \in DOMAIN jobs /\ jobs[j].status = "processing" /\ ~Held(j)

\* C22: a job left in processing by a process that exited keeps its row
\* unchanged in every later step: no claim selects it, no operation changes
\* its status, no sweep deletes it.
C22_StaysProcessing ==
  [][\A j \in JobIds :
       Orphaned(j) =>
         /\ j \in DOMAIN jobs'
         /\ jobs'[j] = jobs[j]
         /\ \A i \in Invs : inv'[i].job # j
         /\ claims'[j] = claims[j]]_vars

\* a job orphaned before the cutoff is still processing after the process
\* was started again, claimed and finished a later job, and a sweep removed
\* that later job
C22_Witness ==
  \E j \in JobIds, k \in JobIds :
    /\ Orphaned(j) /\ jobs[j].created_at < Cutoff(now)
    /\ j < k /\ Removed(k)
    /\ "p1" \in timer

C24_CommitBeforeRequest ==
  [][/\ \A j \in JobIds :
          log'[j] # log[j] =>
            /\ StatusOf(jobs, j) = "processing"
            /\ claims[j] >= 1
            /\ \A k \in Invs : ~(inv[k].pc \in {"select", "commit"} /\ inv[k].job = j)
     /\ \A i \in Invs :
          inv'[i].pc \in {"fetch", "hung"} =>
            /\ StatusOf(jobs', inv'[i].job) = "processing"
            /\ claims'[inv'[i].job] >= 1]_vars

\* an invocation waits for a backoff delay while another invocation has a
\* claim transaction open on another job
C24_Witness ==
  \E i \in Invs, k \in Invs :
    /\ inv[i].pc = "fetch" /\ inv[i].retries >= 1
    /\ inv[k].pc = "commit" /\ inv[k].job # inv[i].job

\* ------------------------------------------------------------ C25
\* C25: an invocation that ends during its claim transaction leaves the
\* table, the claim counts and the timers as they were: the job it had
\* selected is still pending and locked by no one.
C25_ClaimRollback ==
  [][\A i \in Invs :
       (inv[i].pc \in {"select", "commit"} /\ inv'[i].pc = "idle") =>
         /\ jobs' = jobs
         /\ claims' = claims
         /\ timer' = timer
         /\ inv[i].pc = "commit" =>
              /\ StatusOf(jobs', inv[i].job) = "pending"
              /\ \A k \in Invs : inv'[k].job = inv[i].job => k # i]_vars

\* the claim of the only job was rolled back; a later invocation claimed the
\* job and completed it
C25_Witness ==
  /\ nextId = 2
  /\ \E i \in Invs : inv[i] = RolledBack
  /\ claims[1] = 1
  /\ StatusOf(jobs, 1) = "completed"

\* ------------------------------------------------------------ C26
\* C26: result_data, error and completed_at of a job change only in the
\* step that takes the job from processing to completed or failed, and only
\* from null: once written they keep their value.
C26_WrittenOnce ==
  [][\A j \in DOMAIN jobs :
       j \in DOMAIN jobs' =>
         /\ jobs'[j].result_data # jobs[j].result_data =>
              /\ jobs[j].result_data = NULL
              /\ jobs[j].status = "processing" /\ jobs'[j].status \in Terminal
         /\ jobs'[j].error # jobs[j].error =>
              /\ jobs[j].error = NULL
              /\ jobs[j].status = "processing" /\ jobs'[j].status \in Terminal
         /\ jobs'[j].completed_at # jobs[j].completed_at =>
              /\ jobs[j].completed_at = NoTime
              /\ jobs[j].status = "processing" /\ jobs'[j].status \in Terminal]_vars

\* a completed job and a failed job whose outcome was written at an
\* earlier time than now
C26_Witness ==
  \E j \in DOMAIN jobs, k \in DOMAIN jobs :
    /\ jobs[j].status = "completed" /\ jobs[j].result_data # NULL
    /\ jobs[j].completed_at # NoTime /\ jobs[j].completed_at[1] < now
    /\ jobs[k].status = "failed" /\ jobs[k].error # NULL
    /\ jobs[k].completed_at # NoTime /\ jobs[k].completed_at[1] < now

\* ------------------------------------------------------------ C27
\* C27: a pending or processing job has no result, error or completed_at;
\* only a completed job has a result, only a failed job has an error, and
\* every completed or failed job has its completed_at.
C27_FieldsByStatus ==
  \A j \in DOMAIN jobs :
    /\ jobs[j].status \in {"pending", "processing"} =>
         jobs[j].result_data = NULL /\ jobs[j].error = NULL /\ jobs[j].completed_at = NoTime
    /\ jobs[j].result_data # NULL => jobs[j].status = "completed"
    /\ jobs[j].error # NULL => jobs[j].status = "failed"
    /\ jobs[j].status \in Terminal => jobs[j].completed_at # NoTime

\* a completed job with its text next to a job that failed because the
\* completed UPDATE threw after a successful request
C27_Witness ==
  \E j \in DOMAIN jobs, k \in DOMAIN jobs :
    /\ jobs[j].status = "completed" /\ jobs[j].result_data = "a" /\ jobs[j].error = NULL
    /\ jobs[k].status = "failed" /\ jobs[k].error = MsgStore /\ jobs[k].result_data = NULL
    /\ log[k] = <<"okA">>

\* ------------------------------------------------------------ C28
\* job_type, input_data and created_at of every row that stays are unchanged
SameIdentity ==
  \A j \in DOMAIN jobs :
    j \in DOMAIN jobs' =>
      /\ jobs'[j].job_type = jobs[j].job_type
      /\ jobs'[j].input_data = jobs[j].input_data
      /\ jobs'[j].created_at = jobs[j].created_at

\* C28 as stated: no step changes job_type, input_data or created_at of a
\* job, and the job_type of every job in the table is a recognized type.
C28_Frame ==
  [][/\ SameIdentity
     /\ \A j \in DOMAIN jobs' : jobs'[j].job_type \in RecognizedTypes]_vars

\* C28 amended: no step changes job_type, input_data or created_at of a
\* job, and the job_type of every job is a recognized type except for the
\* row test_db_connection.js inserted, whose job_type is 'test_job'.
C28_FrameApi ==
  [][/\ SameIdentity
     /\ \A j \in DOMAIN jobs' :
          \/ jobs'[j].job_type \in RecognizedTypes
          \/ j = test'.id /\ jobs'[j].job_type = "test_job"]_vars

\* a submitted job and the script's job were both claimed and finished and
\* still carry what they were inserted with
C28_Witness ==
  \E j \in DOMAIN jobs :
    /\ j # test.id
    /\ jobs[j].status \in Terminal /\ jobs[j].job_type = "prompt1" /\ jobs[j].input_data = "messages"
    /\ test.id \in DOMAIN jobs
    /\ jobs[test.id].status \in Terminal /\ jobs[test.id].job_type = "test_job"

\* ------------------------------------------------------------ C29
\* C29: GET /api/jobs/:id changes nothing but the response it sends; for an
\* id with no row (never created, or removed by the sweeper) the response
\* is 404, and for an id with a row it is the row's status, result, error
\* and completed_at as they are at that moment.
C29_ReadOnly ==
  [][(http' # http /\ http'.op = "get") =>
       /\ jobs' = jobs /\ nextId' = nextId /\ inv' = inv
       /\ claims' = claims /\ log' = log /\ sweeps' = sweeps
       /\ http'.id \notin DOMAIN jobs => http'.res.code = 404
       /\ http'.id \in DOMAIN jobs =>
            /\ http'.res.code = 200
            /\ http'.res.status = jobs[http'.id].status
            /\ http'.res.result = jobs[http'.id].result_data
            /\ http'.res.error = jobs[http'.id].error
            /\ http'.res.completed_at = jobs[http'.id].completed_at]_vars

C31_SweepContained ==
  [][/\ (sweepLog' = "error" /\ sweepLog # "error") =>
          /\ jobs' = jobs /\ inv' = inv /\ timer' = timer /\ sweeps' = sweeps
     /\ sweeps' # sweeps =>
          /\ "p1" \in timer
          /\ DOMAIN jobs' = {j \in DOMAIN jobs : ~Expired(jobs[j], Cutoff(now))}
          /\ \A j \in DOMAIN jobs' : jobs'[j] = jobs[j]]_vars

\* a sweep failed, a later sweep ran, and an expired job is gone while the
\* timers are still set
C31_Witness ==
  /\ sweepLog = "recovered"
  /\ \E j \in JobIds : Removed(j)
  /\ \A j \in DOMAIN jobs : ~Expired(jobs[j], Cutoff(now))
  /\ "p1" \in timer

\* ------------------------------------------------------------ C32
\* C32: an instance started with the job processor disabled never has an
\* invocation of processNextJob and never holds or runs a timer; sweeps
\* are run only by the enabled instance, and a job submitted through
\* the disabled instance leaves pending only when an invocation of the
\* enabled instance commits its claim.
C32_DisabledNeverWorks ==
  [][/\ \A i \in Invs : inv'[i].proc # "web"
     /\ "web" \notin timer' /\ "web" \notin cleanup'
     /\ runtime'["web"].ticks = 0 /\ runtime'["web"].sweeps = 0
     /\ (sweeps' # sweeps => runtime["p1"].sweeps > 0)
     /\ \A j \in DOMAIN jobs :
          (jobs[j].status = "pending" /\ (j \notin DOMAIN jobs' \/ jobs'[j].status # "pending")) =>
            /\ j \in DOMAIN jobs' /\ jobs'[j].status = "processing"
            /\ \E i \in Invs : inv[i].pc = "commit" /\ inv[i].job = j /\ inv[i].proc = "p1"]_vars

\* the disabled instance is up, the enabled one is stopped and idle: one job
\* submitted through the disabled instance was completed by the enabled
\* one, a later one waits in pending
C32_Witness ==
  /\ runtime["web"].up /\ runtime["web"].http
  /\ "p1" \notin timer
  /\ \A i \in Invs : inv[i].pc = "idle"
  /\ \E j, k \in DOMAIN jobs :
       /\ jobs[j].status = "completed" /\ claims[j] = 1
       /\ jobs[k].status = "pending"

\* ------------------------------------------------------------ C37
\* C37: whatever startBackgroundJobs and stopBackgroundJobs calls were made,
\* an instance has at most one active job-processing interval and at most
\* one active cleanup interval, and none of a kind whose handle is not set
\* (after stopBackgroundJobs).
C37_OneTimerEach ==
  \A p \in Instances :
    /\ runtime[p].ticks <= 1 /\ runtime[p].sweeps <= 1
    /\ (p \notin timer => runtime[p].ticks = 0)
    /\ (p \notin cleanup => runtime[p].sweeps = 0)

\* the background jobs were stopped while an invocation was at work, and
\* no interval is left
C37_Witness ==
  /\ runtime["p1"].up
  /\ "p1" \notin timer /\ "p1" \notin cleanup
  /\ runtime["p1"].ticks = 0 /\ runtime["p1"].sweeps = 0
  /\ \E i \in Invs : Working(i) /\ inv[i].proc = "p1"

C33_Backoff ==
  \A j \in JobIds :
    /\ Len(waits[j]) = Len(log[j])
    /\ waits[j] = SubSeq(<<0, 2000, 4000>>, 1, Len(log[j]))
    /\ (j \in DOMAIN jobs /\ jobs[j].status = "completed" /\ Len(log[j]) = 3) =>
         waits[j][1] + waits[j][2] + waits[j][3] = 6000

\* a job completed by its third request, after two failed ones
C33_Witness ==
  \E j \in DOMAIN jobs :
    /\ jobs[j].status = "completed"
    /\ Len(log[j]) = 3
    /\ AttemptFailed(log[j][1]) /\ AttemptFailed(log[j][2])
    /\ waits[j] = <<0, 2000, 4000>>

\* ------------------------------------------------------------ C34
\* C34: a body of 500 characters or more that does not parse, or parses
\* without the generated text, is one failed attempt like a short body:
\* the job is failed only after maxRetries requests.
C34_ParseLikeShort ==
  /\ \A j \in DOMAIN jobs : jobs[j].status = "failed" => Len(log[j]) = maxRetries
  /\ \A i \in Invs : inv[i].pc = "fail" => Len(log[inv[i].job]) = maxRetries

\* ------------------------------------------------------------ C35
\* C35: when the proxy and the worker have both finished on the same
\* sequence of upstream outcomes, they made the same requests with the
\* same sleeps, and the proxy answered 200 exactly if the worker completed
\* the job.
C35_SamePolicy ==
  (1 \in DOMAIN jobs /\ jobs[1].status \in Terminal /\ proxy.pc = "done") =>
    /\ proxy.log = log[1]
    /\ proxy.waits = waits[1]
    /\ (proxy.code = 200) <=> (jobs[1].status = "completed")

\* ------------------------------------------------------------ C36
\* C36: the invocations of a process never hold every connection of its
\* pool while each of them waits for a free connection to record its
\* outcome.
C36_NeverExhausted ==
  ~ /\ FreeConnections("p1") = 0
    /\ \A i \in Invs : inv[i].proc = "p1" => inv[i].pc \in {"complete", "fail"}

\* ------------------------------------------------------------ C39
\* C39: while OPENROUTER_API_KEY is unset or blank, no upstream request is
\* issued and no backoff is slept for any job, no job is completed, and a
\* claimed job ends failed with 'OpenRouter API key not configured.'.
C39_NoKeyFails ==
  keyEnv \in {"absent", "blank"} =>
    /\ \A j \in JobIds : log[j] = <<>> /\ waits[j] = <<>>
    /\ \A i \in Invs : inv[i].retries = 0 /\ inv[i].pc \notin {"complete", "hung"}
    /\ \A j \in DOMAIN jobs :
         /\ jobs[j].status # "completed"
         /\ jobs[j].status = "failed" =>
              jobs[j].error = "OpenRouter API key not configured."

\* with a blank key a job was claimed and marked failed with that text
C39_Witness ==
  /\ keyEnv = "blank"
  /\ \E j \in DOMAIN jobs :
       /\ jobs[j].status = "failed" /\ claims[j] = 1
       /\ jobs[j].error = "OpenRouter API key not configured."
       /\ log[j] = <<>>

====
